---- MODULE Spec2Model ----
(***************************************************************************)
(* Radar Backend (src/main.py): RSS ingestion with URL de-duplication,     *)
(* the keyword classifiers, and the per-topic / per-query sentiment        *)
(* aggregation of /trending and /search.                                   *)
(*                                                                         *)
(* Python strings are sequences of one-character strings, so that strip(), *)
(* lower(), " ".join() and the substring test `k in t` are computed and    *)
(* not assumed.  Python's None is the one-element sequence None, which no  *)
(* text can equal because its element is not a single character.           *)
(***************************************************************************)
EXTENDS Integers, Sequences, FiniteSets, TLC

VARIABLES
  feedContent,  \* what feedparser finds at each feed url: a sequence of entries
  store,        \* the rows of the "mentions" table, in insertion order
  feeds,        \* the feeds parameter of the scheduled request, after `or default_feeds`
  target,       \* its target parameter
  limit_per_feed, \* its limit_per_feed parameter
  started,      \* number of requests that have arrived
  req,          \* per worker: the number of the request it serves (history)
  pc,           \* per worker: where ingest_rss stands
  fi,           \* per worker: index of the current feed_url in feeds
  entries,      \* per worker: parsed.entries[:limit_per_feed] of the current feed
  ei,           \* per worker: index of the current entry e in entries
  rows,         \* per worker: the batch built so far
  skipped,      \* per worker: the skipped counter
  inserted,     \* per worker: the inserted counter
  result,       \* per worker: the JSON body returned, or NoResult
  classified,   \* per worker: number of calls of the two classifiers (history)
  considered,   \* per worker: entries its feeds handed to the inner loop (history)
  last,         \* the last step taken and its outcome (history)
  failed,       \* which external calls have failed so far: "feed", "store" (history)
  overlap,      \* TRUE once a run started while another was running (history)
  text,         \* SpecTexts: the text given to the classifiers
  topic,        \* SpecTexts: topic_from_text_simple(text), None before the call
  sentiment,    \* SpecTexts: classify_sentiment_simple(text), None before the call
  items,        \* SpecItems: res.data, the rows the endpoint's query returned
  trend,        \* SpecItems: "items" of the /trending response
  summary       \* SpecItems: total and sentiment_counts of the /search response

vars == <<feedContent, store, feeds, target, limit_per_feed, started, req, pc, fi, entries, ei,
          rows, skipped, inserted, result, classified, considered, last, failed,
          overlap, text, topic, sentiment, items, trend, summary>>

ingestVars == <<feedContent, store, feeds, target, limit_per_feed, started, req,
                pc, fi, entries,
                ei, rows, skipped, inserted, result, classified, considered, last,
                failed, overlap>>
classVars == <<text, topic, sentiment>>
aggVars == <<items, trend, summary>>

----------------------------------------------------------------------------
(* Bounds of the model.                                                     *)
MaxRuns == 2       \* ingestion requests per behaviour
MaxEntries == 2    \* entries published by all feeds together
MaxWords == 3      \* words per classified text
MaxItems == 2      \* rows returned by the query of /trending and /search

----------------------------------------------------------------------------
(* Strings.                                                                 *)
None == <<"None">>

Whitespace == {" ", "\t", "\n"}

UpperChars == <<"A","B","C","D","E","F","G","H","I","J","K","L","M","N","O","P",
                "Q","R","S","T","U","V","W","X","Y","Z","Á","É","Í","Ó","Ú","Ñ">>
LowerChars == <<"a","b","c","d","e","f","g","h","i","j","k","l","m","n","o","p",
                "q","r","s","t","u","v","w","x","y","z","á","é","í","ó","ú","ñ">>

LowerChar(c) ==
  IF \E i \in 1..Len(UpperChars) : UpperChars[i] = c
    THEN LowerChars[CHOOSE i \in 1..Len(UpperChars) : UpperChars[i] = c]
    ELSE c

\* str.lower()
lower(s) == [i \in 1..Len(s) |-> LowerChar(s[i])]

\* str.strip(): drop leading and trailing whitespace
strip(s) ==
  LET keep == {i \in 1..Len(s) : s[i] \notin Whitespace}
  IN IF keep = {} THEN <<>>
     ELSE LET lo == CHOOSE i \in keep : \A j \in keep : i <= j
              hi == CHOOSE i \in keep : \A j \in keep : j <= i
          IN SubSeq(s, lo, hi)

\* `k in t` for strings: k occurs in t as a contiguous substring
Contains(t, k) ==
  \E i \in 1..(Len(t) - Len(k) + 1) : SubSeq(t, i, i + Len(k) - 1) = k

\* (x or "")
OrEmpty(x) == IF x = None THEN <<>> ELSE x

\* ((x or "").strip() or None), lines 410-412
StripOrNone(x) == IF strip(OrEmpty(x)) = <<>> THEN None ELSE strip(OrEmpty(x))

\* " ".join(parts) for a sequence of strings
RECURSIVE Join(_)
Join(parts) ==
  IF parts = <<>> THEN <<>>
  ELSE IF Len(parts) = 1 THEN parts[1]
  ELSE parts[1] \o <<" ">> \o Join(Tail(parts))

\* the slice forgotten
Take_all(s, n) == s

Take(s, n) == SubSeq(s, 1, IF Len(s) < n THEN Len(s) ELSE n)

----------------------------------------------------------------------------
(* The classifiers.                                                         *)
TOPICS ==
  << <<"s", "e", "g", "u", "r", "i", "d", "a", "d">>,
     <<"o", "b", "r", "a", "s">>,
     <<"b", "a", "s", "u", "r", "a">>,
     <<"t", "r", "á", "f", "i", "c", "o">>,
     <<"a", "g", "u", "a">>,
     <<"i", "m", "p", "u", "e", "s", "t", "o", "s">>,
     <<"p", "a", "r", "q", "u", "e", "s">>,
     <<"e", "m", "p", "l", "e", "o">> >>

pos == <<"p", "o", "s">>
neu == <<"n", "e", "u">>
neg == <<"n", "e", "g">>
otros == <<"o", "t", "r", "o", "s">>

rules ==
  <<
     [topic |-> <<"s", "e", "g", "u", "r", "i", "d", "a", "d">>, kws |-> <<
        <<"s", "e", "g", "u", "r", "i", "d", "a", "d">>,
        <<"a", "s", "a", "l", "t", "o">>,
        <<"r", "o", "b", "o">>,
        <<"h", "o", "m", "i", "c", "i", "d", "i", "o">>,
        <<"s", "i", "c", "a", "r", "i", "a", "t", "o">>,
        <<"d", "e", "l", "i", "n", "c">> >>],
     [topic |-> <<"o", "b", "r", "a", "s">>, kws |-> <<
        <<"o", "b", "r", "a">>,
        <<"p", "u", "e", "n", "t", "e">>,
        <<"v", "í", "a">>,
        <<"c", "a", "r", "r", "e", "t", "e", "r", "a">>,
        <<"c", "o", "n", "s", "t", "r", "u", "c", "c", "i", "ó", "n">>,
        <<"a", "s", "f", "a", "l", "t", "o">> >>],
     [topic |-> <<"b", "a", "s", "u", "r", "a">>, kws |-> <<
        <<"b", "a", "s", "u", "r", "a">>,
        <<"d", "e", "s", "e", "c", "h", "o", "s">>,
        <<"r", "e", "c", "o", "l", "e", "c", "c", "i", "ó", "n">>,
        <<"r", "e", "l", "l", "e", "n", "o">>,
        <<"c", "o", "n", "t", "a", "m", "i", "n", "a", "c", "i", "ó", "n">> >>],
     [topic |-> <<"t", "r", "á", "f", "i", "c", "o">>, kws |-> <<
        <<"t", "r", "á", "f", "i", "c", "o">>,
        <<"c", "o", "n", "g", "e", "s", "t", "i", "ó", "n">>,
        <<"c", "h", "o", "q", "u", "e">>,
        <<"a", "c", "c", "i", "d", "e", "n", "t", "e">>,
        <<"m", "o", "v", "i", "l", "i", "d", "a", "d">> >>],
     [topic |-> <<"a", "g", "u", "a">>, kws |-> <<
        <<"a", "g", "u", "a">>,
        <<"p", "o", "t", "a", "b", "l", "e">>,
        <<"c", "o", "r", "t", "e">>,
        <<"t", "u", "b", "e", "r", "í", "a">>,
        <<"a", "l", "c", "a", "n", "t", "a", "r", "i", "l", "l", "a", "d", "o">> >>],
     [topic |-> <<"i", "m", "p", "u", "e", "s", "t", "o", "s">>, kws |-> <<
        <<"i", "m", "p", "u", "e", "s", "t", "o">>,
        <<"t", "a", "s", "a">>,
        <<"t", "r", "i", "b", "u", "t">>,
        <<"s", "r", "i">>,
        <<"p", "r", "e", "d", "i", "a", "l">> >>],
     [topic |-> <<"p", "a", "r", "q", "u", "e", "s">>, kws |-> <<
        <<"p", "a", "r", "q", "u", "e">>,
        <<"á", "r", "e", "a", " ", "v", "e", "r", "d", "e">>,
        <<"r", "e", "c", "r", "e", "a", "c", "i", "ó", "n">>,
        <<"m", "a", "l", "e", "c", "o", "n">>,
        <<"m", "a", "l", "e", "c", "ó", "n">> >>],
     [topic |-> <<"e", "m", "p", "l", "e", "o">>, kws |-> <<
        <<"e", "m", "p", "l", "e", "o">>,
        <<"t", "r", "a", "b", "a", "j", "o">>,
        <<"d", "e", "s", "e", "m", "p", "l", "e", "o">>,
        <<"c", "o", "n", "t", "r", "a", "t">>,
        <<"v", "a", "c", "a", "n", "t", "e", "s">> >>]
  >>

pos_words ==
  << <<"m", "e", "j", "o", "r">>,
     <<"a", "v", "a", "n", "c", "e">>,
     <<"i", "n", "a", "u", "g", "u", "r", "a">>,
     <<"b", "e", "n", "e", "f", "i", "c", "i", "o">>,
     <<"l", "o", "g", "r", "o">>,
     <<"s", "o", "l", "u", "c", "i", "o", "n", "a">>,
     <<"r", "e", "d", "u", "c", "e">>,
     <<"a", "u", "m", "e", "n", "t", "a">>,
     <<"é", "x", "i", "t", "o">> >>

neg_words ==
  << <<"c", "r", "i", "s", "i", "s">>,
     <<"d", "e", "n", "u", "n", "c", "i", "a">>,
     <<"p", "r", "o", "t", "e", "s", "t", "a">>,
     <<"m", "u", "e", "r", "e">>,
     <<"v", "i", "o", "l", "e", "n", "c", "i", "a">>,
     <<"a", "s", "a", "l", "t">>,
     <<"r", "o", "b", "o">>,
     <<"c", "o", "r", "r", "u", "p">>,
     <<"c", "a", "o", "s">>,
     <<"c", "o", "l", "a", "p", "s">> >>

\* any(k in t for k in kws)
AnyIn(kws, t) == \E i \in 1..Len(kws) : Contains(t, kws[i])

\* the loop without its return: the last rule that matches wins
RECURSIVE TopicFrom_last(_, _)
TopicFrom_last(t, i) ==
  IF i > Len(rules) THEN otros
  ELSE IF TopicFrom_last(t, i + 1) # otros THEN TopicFrom_last(t, i + 1)
  ELSE IF AnyIn(rules[i].kws, t) THEN rules[i].topic
  ELSE otros

\* the for loop of lines 99-102 from rule i on: the first rule that matches returns
RECURSIVE TopicFrom(_, _)
TopicFrom(t, i) ==
  IF i > Len(rules) THEN otros
  ELSE IF AnyIn(rules[i].kws, t) THEN rules[i].topic
  ELSE TopicFrom(t, i + 1)

topic_from_text_simple(tx) == TopicFrom(lower(OrEmpty(tx)), 1)

\* the loops of lines 72-77: each word adds (or takes) one if it occurs
RECURSIVE CountIn(_, _)
CountIn(ws, t) ==
  IF ws = <<>> THEN 0
  ELSE (IF Contains(t, Head(ws)) THEN 1 ELSE 0) + CountIn(Tail(ws), t)

classify_sentiment_simple(tx) ==
  LET t == lower(OrEmpty(tx))
      score == CountIn(pos_words, t) - CountIn(neg_words, t)
  IN IF score >= 1 THEN pos ELSE IF score <= -1 THEN neg ELSE neu

----------------------------------------------------------------------------
(* Ingestion: POST /ingest/rss.                                             *)
\* the threads of the server's pool that may run the handler at the same time
Workers == {1, 2}

FeedUrls == {"feedA", "feedB"}

default_feeds ==
  << "https://news.google.com/rss?hl=es-419&gl=EC&ceid=EC:es-419",
     "https://news.google.com/rss/search?q=Guayaquil&hl=es-419&gl=EC&ceid=EC:es-419",
     "https://news.google.com/rss/search?q=Quito&hl=es-419&gl=EC&ceid=EC:es-419",
     "https://news.google.com/rss/search?q=Ecuador%20seguridad&hl=es-419&gl=EC&ceid=EC:es-419" >>

\* feeds = feeds or default_feeds
FeedsOrDefault(fs) == IF fs = None \/ fs = <<>> THEN default_feeds ELSE fs

\* the target never changes what the handler does; the default is used
Targets == {"ecuador_news"}

\* limit_per_feed (1..50 in the code): a limit of MaxEntries or more cuts nothing
Limits == 1..MaxEntries

\* The entries a feed may publish: title, link and summary as feedparser gives them.
EntryKinds ==
  { [title |-> <<"R","o","b","o">>, link |-> <<"u","1">>, summary |-> None],
    [title |-> None, link |-> <<" ","u","2","\n">>,
       summary |-> <<"m","e","j","o","r"," ","a","g","u","a"," ">>],
    [title |-> <<"o","b","r","a">>, link |-> None, summary |-> <<"h","o","l","a">>],
    [title |-> <<" ">>, link |-> <<"u","1">>, summary |-> None],
    [title |-> None, link |-> <<" ">>, summary |-> <<>>] }

SeqsUpTo(S, n) == UNION {[1..k -> S] : k \in 0..n}

Bodies == SeqsUpTo(EntryKinds, MaxEntries)

RECURSIVE SumLen(_, _)
SumLen(f, D) ==
  IF D = {} THEN 0
  ELSE LET d == CHOOSE x \in D : TRUE IN Len(f[d]) + SumLen(f, D \ {d})

Worlds == {w \in [FeedUrls -> Bodies] : SumLen(w, FeedUrls) <= MaxEntries}

\* The feeds parameter: one feed, one feed twice, or two feeds.  The two urls
\* are interchangeable, so the list starts with feedA.
FeedLists ==
  {fs \in SeqsUpTo(FeedUrls, Cardinality(FeedUrls)) \ {<<>>} : fs[1] = "feedA"}

NoResult == [feeds_used |-> -1, inserted |-> -1, skipped_estimated |-> -1]

Running == {"fetch", "entry", "insert"}
Finished == {"done", "error"}

\* lines 410-412 and 421
EntryTitle(e) == StripOrNone(e.title)
EntryLink(e) == StripOrNone(e.link)
EntrySummary(e) == StripOrNone(e.summary)

\* title and summary joined as they come, untrimmed and unfiltered
TextBlob_unstripped(e) == Join(<<OrEmpty(e.title), OrEmpty(e.summary)>>)

TextBlob(e) ==
  strip(Join(SelectSeq(<<EntryTitle(e), EntrySummary(e)>>, LAMBDA x : x # None)))

TextMax == 2000

\* the dict appended at lines 441-458 (req: the request that built it, history)
MkRow(w, e) ==
  LET blob == TextBlob(e)
      snt == classify_sentiment_simple(blob)
  IN [ source |-> "rss", platform |-> "news", target |-> target,
       title |-> EntryTitle(e), text |-> Take(blob, TextMax), url |-> EntryLink(e),
       sentiment |-> snt,
       score |-> IF snt = pos THEN 70 ELSE IF snt = neu THEN 50 ELSE 35,
       topic |-> topic_from_text_simple(blob), req |-> req[w] ]

\* a query that finds nothing, whatever the table holds
ExistsByUrl_never(link) == FALSE

\* sb.table("mentions").select("id").eq("url", link).limit(1).execute().data
ExistsByUrl(link) == \E i \in 1..Len(store) : store[i].url = link

\* the except branch skipping the entry instead of passing
Decide_skipOnError(e, query) ==
  IF TextBlob(e) = <<>> THEN "skip_empty"
  ELSE IF EntryLink(e) = None THEN "append_nolink"
  ELSE IF query = "raise" THEN "skip_dup"
  ELSE IF ExistsByUrl(EntryLink(e)) THEN "skip_dup"
  ELSE "append"

\* Lines 421-439: what the loop body does with entry e.  query is the outcome of
\* the exists-by-url query: "none" (not made), "ok" or "raise".
Decide(e, query) ==
  IF TextBlob(e) = <<>> THEN "skip_empty"
  ELSE IF EntryLink(e) = None THEN "append_nolink"
  ELSE IF query = "raise" THEN "append_query_failed"
  ELSE IF ExistsByUrl(EntryLink(e)) THEN "skip_dup"
  ELSE "append"

Skips == {"skip_empty", "skip_dup"}
Appends == {"append_nolink", "append", "append_query_failed"}

\* the insert wrapped in a try/except that passes
Finish_swallow(rws, skp, ins, outcome) ==
  [pc |-> "done", written |-> IF outcome = "ok" THEN rws ELSE <<>>,
   result |-> [feeds_used |-> Len(feeds),
               inserted |-> IF rws = <<>> THEN ins ELSE Len(rws),
               skipped_estimated |-> skp]]

\* Lines 460-469: what the end of the handler does with the batch rws.  outcome is
\* the outcome of the insert: "none" (not made), "ok" or "raise".
Finish(rws, skp, ins, outcome) ==
  IF rws = <<>>
    THEN [pc |-> "done", written |-> <<>>,
          result |-> [feeds_used |-> Len(feeds), inserted |-> ins,
                      skipped_estimated |-> skp]]
  ELSE IF outcome = "ok"
    THEN [pc |-> "done", written |-> rws,
          result |-> [feeds_used |-> Len(feeds), inserted |-> Len(rws),
                      skipped_estimated |-> skp]]
  ELSE [pc |-> "error", written |-> <<>>, result |-> NoResult]

\* where the two nested for loops stand once entry e - 1 of feed f is done
NextPos(f, ents, e) ==
  IF e <= Len(ents) THEN [pc |-> "entry", fi |-> f, ei |-> e]
  ELSE IF f + 1 <= Len(feeds) THEN [pc |-> "fetch", fi |-> f + 1, ei |-> 1]
  ELSE [pc |-> "insert", fi |-> f, ei |-> e]

\* the step just taken: by which request, where, the outcome of the external call
\* it made, and what the handler did
Event(w, step, ext, kind) ==
  [req |-> req[w], step |-> step, ext |-> ext, kind |-> kind, fi |-> fi[w], ei |-> ei[w]]

\* The scheduled request (the cron job of the handler's note) and the feeds it reads
\* are fixed; the table is empty and no request has arrived.  What a feed that
\* the request does not read publishes is of no matter, and is left empty.
NoRequestYet ==
  /\ store = <<>>
  /\ started = 0
  /\ req = [w \in Workers |-> 0]
  /\ pc = [w \in Workers |-> "idle"]
  /\ fi = [w \in Workers |-> 1]
  /\ entries = [w \in Workers |-> <<>>]
  /\ ei = [w \in Workers |-> 1]
  /\ rows = [w \in Workers |-> <<>>]
  /\ skipped = [w \in Workers |-> 0]
  /\ inserted = [w \in Workers |-> 0]
  /\ result = [w \in Workers |-> NoResult]
  /\ classified = [w \in Workers |-> 0]
  /\ considered = [w \in Workers |-> 0]
  /\ last = [req |-> 0, step |-> "init", ext |-> "none", kind |-> "init", fi |-> 0, ei |-> 0]
  /\ failed = {}
  /\ overlap = FALSE

InitIngest ==
  /\ feeds \in {FeedsOrDefault(fs) : fs \in FeedLists}
  /\ feedContent \in
       {c \in Worlds : \A u \in FeedUrls :
                         (\A i \in 1..Len(feeds) : feeds[i] # u) => c[u] = <<>>}
  /\ target \in Targets
  /\ limit_per_feed \in Limits
  /\ NoRequestYet

\* the ingestion at rest, for the specifications that exercise other endpoints
IngestIdle ==
  /\ feedContent = [u \in FeedUrls |-> <<>>]
  /\ feeds = default_feeds
  /\ target = "ecuador_news"
  /\ limit_per_feed = 20
  /\ NoRequestYet

\* lines 366-403: a request arrives at worker w.  refused: get_sb() reports an
\* error or feedparser cannot be imported (lines 379-389), and the handler returns
\* the 500 response at once; such a request is not numbered.
Begin(w, refused) ==
  /\ pc[w] \notin Running
  /\ started < MaxRuns
  /\ started' = IF refused THEN started ELSE started + 1
  /\ req' = [req EXCEPT ![w] = IF refused THEN 0 ELSE started + 1]
  /\ pc' = [pc EXCEPT ![w] = IF refused THEN "error" ELSE "fetch"]
  /\ fi' = [fi EXCEPT ![w] = 1]
  /\ ei' = [ei EXCEPT ![w] = 1]
  /\ entries' = [entries EXCEPT ![w] = <<>>]
  /\ rows' = [rows EXCEPT ![w] = <<>>]
  /\ skipped' = [skipped EXCEPT ![w] = 0]
  /\ inserted' = [inserted EXCEPT ![w] = 0]
  /\ result' = [result EXCEPT ![w] = NoResult]
  /\ classified' = [classified EXCEPT ![w] = 0]
  /\ considered' = [considered EXCEPT ![w] = 0]
  /\ last' = [req |-> IF refused THEN 0 ELSE started + 1, step |-> "begin", ext |-> "none",
              kind |-> IF refused THEN "refused" ELSE "begin", fi |-> 1, ei |-> 1]
  /\ overlap' = (overlap \/ (~refused /\ \E q \in Workers \ {w} : pc[q] \in Running))
  /\ UNCHANGED <<feedContent, feeds, target, limit_per_feed, store, failed>>

\* lines 405-407: feedparser.parse(feed_url) and the slice.  The call returns the
\* feed's entries ("ok"), or reports the failure in parsed.bozo and returns no
\* entry ("bozo"), or raises ("raise"); the handler catches nothing here.
Fetch(w, outcome) ==
  /\ pc[w] = "fetch"
  /\ LET got == IF outcome = "ok"
                  THEN Take(feedContent[feeds[fi[w]]], limit_per_feed)
                  ELSE <<>>
         nxt == NextPos(fi[w], got, 1)
     IN IF outcome = "raise"
          THEN /\ pc' = [pc EXCEPT ![w] = "error"]
               /\ UNCHANGED <<entries, fi, ei, considered>>
          ELSE /\ entries' = [entries EXCEPT ![w] = got]
               /\ considered' = [considered EXCEPT ![w] = @ + Len(got)]
               /\ pc' = [pc EXCEPT ![w] = nxt.pc]
               /\ fi' = [fi EXCEPT ![w] = nxt.fi]
               /\ ei' = [ei EXCEPT ![w] = nxt.ei]
  /\ last' = Event(w, "fetch", outcome, IF outcome = "raise" THEN "abort" ELSE "parsed")
  /\ failed' = IF outcome = "ok" THEN failed ELSE failed \cup {"feed"}
  /\ UNCHANGED <<feedContent, feeds, target, limit_per_feed, store, started, req,
                 rows, skipped, inserted, result, classified, overlap>>

\* lines 409-458: the body of the inner loop for the current entry
Entry(w, query) ==
  /\ pc[w] = "entry"
  /\ LET e == entries[w][ei[w]]
         kind == Decide(e, query)
         nxt == NextPos(fi[w], entries[w], ei[w] + 1)
     IN /\ (query = "none") <=> (TextBlob(e) = <<>> \/ EntryLink(e) = None)
        /\ classified' = [classified EXCEPT ![w] = IF TextBlob(e) = <<>> THEN @ ELSE @ + 2]
        /\ skipped' = [skipped EXCEPT ![w] = IF kind \in Skips THEN @ + 1 ELSE @]
        /\ rows' = [rows EXCEPT ![w] = IF kind \in Appends THEN Append(@, MkRow(w, e)) ELSE @]
        /\ last' = Event(w, "entry", query, kind)
        /\ failed' = IF query = "raise" THEN failed \cup {"store"} ELSE failed
        /\ pc' = [pc EXCEPT ![w] = nxt.pc]
        /\ fi' = [fi EXCEPT ![w] = nxt.fi]
        /\ ei' = [ei EXCEPT ![w] = nxt.ei]
  /\ UNCHANGED <<feedContent, feeds, target, limit_per_feed, store, started, req,
                 entries, inserted, result, considered, overlap>>

\* lines 460-469: the batch insert and the return
Insert(w, outcome) ==
  /\ pc[w] = "insert"
  /\ (outcome = "none") <=> (rows[w] = <<>>)
  /\ LET fin == Finish(rows[w], skipped[w], inserted[w], outcome)
     IN /\ pc' = [pc EXCEPT ![w] = fin.pc]
        /\ store' = store \o fin.written
        /\ result' = [result EXCEPT ![w] = fin.result]
        /\ inserted' = [inserted EXCEPT ![w] =
                          IF fin.pc = "done" THEN fin.result.inserted ELSE @]
        /\ last' = Event(w, "insert", outcome, IF fin.pc = "done" THEN "return" ELSE "abort")
  /\ failed' = IF outcome = "raise" THEN failed \cup {"store"} ELSE failed
  /\ UNCHANGED <<feedContent, feeds, target, limit_per_feed, started, req, fi,
                 entries, ei, rows, skipped, classified, considered, overlap>>

Outcomes == {"none", "ok", "raise"}

FetchFeed(w) == \E outcome \in {"ok", "bozo", "raise"} : Fetch(w, outcome)
ProcessEntry(w) == \E query \in Outcomes : Entry(w, query)
InsertBatch(w) == \E outcome \in Outcomes : Insert(w, outcome)

\* One request at a time (a scheduler that never overlaps its runs): worker 1
\* serves them all.
Start == Begin(1, FALSE)
Refuse == Begin(1, TRUE)

InitClassify == text = None /\ topic = None /\ sentiment = None
InitAggregate == items = <<>> /\ trend = <<>> /\ summary = [total |-> 0, pos |-> 0, neu |-> 0, neg |-> 0]

Init == InitIngest /\ InitClassify /\ InitAggregate

Next ==
  \/ Start /\ UNCHANGED <<classVars, aggVars>>
  \/ Refuse /\ UNCHANGED <<classVars, aggVars>>
  \/ FetchFeed(1) /\ UNCHANGED <<classVars, aggVars>>
  \/ ProcessEntry(1) /\ UNCHANGED <<classVars, aggVars>>
  \/ InsertBatch(1) /\ UNCHANGED <<classVars, aggVars>>

Spec == Init /\ [][Next]_vars


----------------------------------------------------------------------------
(* Two requests that may overlap: the scheduler fires again while a run is *)
(* still going, and the server hands the second request to another thread. *)
(* The external calls succeed here, so that what is seen is due to the     *)
(* interleaving alone.                                                      *)
StartAny(w) == Begin(w, FALSE)

NextConc ==
  \/ \E w \in Workers : StartAny(w) /\ UNCHANGED <<classVars, aggVars>>
  \/ \E w \in Workers : Fetch(w, "ok") /\ UNCHANGED <<classVars, aggVars>>
  \/ \E w \in Workers : (Entry(w, "none") \/ Entry(w, "ok")) /\ UNCHANGED <<classVars, aggVars>>
  \/ \E w \in Workers : (Insert(w, "none") \/ Insert(w, "ok")) /\ UNCHANGED <<classVars, aggVars>>

SpecConc == Init /\ [][NextConc]_vars

----------------------------------------------------------------------------
(* The classifiers on their own: every text of up to MaxWords words.        *)
Vocabulary ==
  { <<"C", "o", "r", "t", "e">>,
    <<"a", "g", "u", "a">>,
    <<"i", "m", "p", "u", "e", "s", "t", "o">>,
    <<"R", "o", "b", "o">>,
    <<"O", "B", "R", "A">>,
    <<"h", "o", "l", "a">>,
    <<"T", "A", "S", "A">>,
    <<"p", "a", "r", "q", "u", "e">>,
    <<"s", "o", "b", "r", "a">>,
    <<"T", "r", "á", "f", "i", "c", "o">>,
    <<"m", "e", "j", "o", "r">>,
    <<"c", "r", "i", "s", "i", "s">> }

RECURSIVE TextsOf(_)
TextsOf(n) ==
  IF n = 0 THEN {<<>>}
  ELSE LET shorter == TextsOf(n - 1)
       IN shorter \cup {Join(<<t, v>>) : t \in shorter \ {<<>>}, v \in Vocabulary}
                  \cup Vocabulary

Texts == TextsOf(MaxWords) \cup {None}

InitTexts ==
  /\ text \in Texts /\ topic = None /\ sentiment = None
  /\ IngestIdle
  /\ InitAggregate

ClassifyTopic ==
  /\ topic = None
  /\ topic' = topic_from_text_simple(text)
  /\ UNCHANGED <<text, sentiment>>

ClassifySentiment ==
  /\ sentiment = None
  /\ sentiment' = classify_sentiment_simple(text)
  /\ UNCHANGED <<text, topic>>

NextTexts ==
  \/ ClassifyTopic /\ UNCHANGED <<ingestVars, aggVars>>
  \/ ClassifySentiment /\ UNCHANGED <<ingestVars, aggVars>>

SpecTexts == InitTexts /\ [][NextTexts]_vars

----------------------------------------------------------------------------
(* The aggregations of /trending and /search over the rows their query     *)
(* returns.  A row's score is an integer; 0 also stands for a null score,  *)
(* which `it.get("score") or 0` turns into 0.  The percentages and the     *)
(* average score are rounded floats derived from the counts and are left   *)
(* out.                                                                     *)
ItemTopics == {None, <<>>, <<" ", "a", "g", "u", "a", " ">>, <<"a", "g", "u", "a">>, <<"o","b","r","a","s">>}
ItemSentiments == {None, <<>>, pos, neu, neg, <<"m", "i", "x", "e", "d">>}
ItemScores == {0, 70}

ItemKinds == [topic : ItemTopics, sentiment : ItemSentiments, score : ItemScores]

\* (it.get("topic") or "otros").strip(), then "otros" if empty: lines 323-325
TopicKey(it) ==
  LET tp == strip(IF it.topic = None \/ it.topic = <<>> THEN otros ELSE it.topic)
  IN IF tp = <<>> THEN otros ELSE tp

\* the sentiment taken as stored, without the fallback to "neu"
SentimentKey_raw(it) == it.sentiment

\* it.get("sentiment") or "neu", then "neu" unless one of the three:
\* lines 329-331 and 269-271
SentimentKey(it) ==
  LET s == IF it.sentiment = None \/ it.sentiment = <<>> THEN neu ELSE it.sentiment
  IN IF s \notin {pos, neu, neg} THEN neu ELSE s

Bump(row, s) ==
  [row EXCEPT !.pos = IF s = pos THEN @ + 1 ELSE @,
              !.neu = IF s = neu THEN @ + 1 ELSE @,
              !.neg = IF s = neg THEN @ + 1 ELSE @]

\* one turn of the loop of lines 322-336; agg is the dict in insertion order
AggStep(agg, it) ==
  LET tp == TopicKey(it)
      had == \E i \in 1..Len(agg) : agg[i].topic = tp
      agg1 == IF had THEN agg
              ELSE Append(agg, [topic |-> tp, count |-> 0, pos |-> 0, neu |-> 0,
                                neg |-> 0, score_sum |-> 0])
      k == CHOOSE i \in 1..Len(agg1) : agg1[i].topic = tp
      row == Bump([agg1[k] EXCEPT !.count = @ + 1], SentimentKey(it))
  IN [agg1 EXCEPT ![k] = [row EXCEPT !.score_sum = @ + it.score]]

RECURSIVE AggAll(_, _)
AggAll(agg, its) == IF its = <<>> THEN agg ELSE AggAll(AggStep(agg, Head(its)), Tail(its))

\* rows.sort(key=count, reverse=True): a stable sort, largest count first
RECURSIVE InsertByCount(_, _)
InsertByCount(sorted, row) ==
  IF sorted = <<>> THEN <<row>>
  ELSE IF Head(sorted).count >= row.count
    THEN <<Head(sorted)>> \o InsertByCount(Tail(sorted), row)
    ELSE <<row>> \o sorted

RECURSIVE SortByCount(_)
SortByCount(rws) ==
  IF rws = <<>> THEN <<>>
  ELSE InsertByCount(SortByCount(SubSeq(rws, 1, Len(rws) - 1)), rws[Len(rws)])

\* lines 320-352
trending(its, limit) ==
  LET rws == AggAll(<<>>, its)
      out == [i \in 1..Len(rws) |->
                [topic |-> rws[i].topic, count |-> rws[i].count, pos |-> rws[i].pos,
                 neu |-> rws[i].neu, neg |-> rws[i].neg]]
  IN Take(SortByCount(out), limit)

\* lines 264-276
RECURSIVE SearchCounts(_, _)
SearchCounts(counts, its) ==
  IF its = <<>> THEN counts
  ELSE SearchCounts(Bump(counts, SentimentKey(Head(its))), Tail(its))

search(its) ==
  LET counts == SearchCounts([pos |-> 0, neu |-> 0, neg |-> 0], its)
  IN [total |-> Len(its), pos |-> counts.pos, neu |-> counts.neu, neg |-> counts.neg]

InitItems ==
  /\ items \in SeqsUpTo(ItemKinds, MaxItems)
  /\ trend = <<>> /\ summary = [total |-> 0, pos |-> 0, neu |-> 0, neg |-> 0]
  /\ IngestIdle
  /\ InitClassify

\* the limit parameter of /trending (1..50 in the code)
TrendLimits == 1..MaxItems

Trending == \E limit \in TrendLimits : trend' = trending(items, limit) /\ UNCHANGED <<items, summary>>

Search == summary' = search(items) /\ UNCHANGED <<items, trend>>

NextItems ==
  \/ Trending /\ UNCHANGED <<ingestVars, classVars>>
  \/ Search /\ UNCHANGED <<ingestVars, classVars>>

SpecItems == InitItems /\ [][NextItems]_vars

----------------------------------------------------------------------------
(* Properties.                                                              *)

\* the worker that serves, or served last, request n
Serving(n) == {w \in Workers : req[w] = n}

\* worker w takes a step of the inner loop
EntryStep(w) == pc[w] = "entry" /\ <<pc[w], fi[w], ei[w]>> # <<pc'[w], fi'[w], ei'[w]>>

\* title and summary are both empty after trimming
EmptyEntry(e) == strip(OrEmpty(e.title)) = <<>> /\ strip(OrEmpty(e.summary)) = <<>>

\* no two stored mentions of one target carry the same non-null url
UrlUnique ==
  \A i, j \in 1..Len(store) :
    (i < j /\ store[i].url # None /\ store[i].target = store[j].target)
      => store[i].url # store[j].url

\* the rows of the table written by request n, in table order
WrittenBy(n) == SelectSeq(store, LAMBDA x : x.req = n)

\* the entries the scheduled request considers when every feed answers
Considered(i) == Take(feedContent[feeds[i]], limit_per_feed)

\* every considered entry that has text has a link
AllLinked ==
  \A i \in 1..Len(feeds) : \A k \in 1..Len(Considered(i)) :
    ~EmptyEntry(Considered(i)[k]) => strip(OrEmpty(Considered(i)[k].link)) # <<>>

\* a request after the first has returned, and no external call has failed so far
RepeatedCleanRun == started >= 2 /\ pc[1] = "done" /\ failed = {}

\* C1 as stated: a repeated run over unchanged feeds, with no failure, inserts no
\* mention: it reports inserted = 0 and writes no row.
C1_RepeatInsertsNothing ==
  RepeatedCleanRun => (result[1].inserted = 0 /\ WrittenBy(req[1]) = <<>>)

\* C1 amended: a repeated run over unchanged feeds in which every entry with text
\* carries a link, with no failure, inserts no mention: it reports inserted = 0,
\* writes no row, and the table holds only what the first run wrote.
C1_RepeatInsertsNothingWhenLinked ==
  (RepeatedCleanRun /\ AllLinked) =>
     /\ result[1].inserted = 0
     /\ WrittenBy(req[1]) = <<>>
     /\ store = WrittenBy(1)

C1_Witness ==
  /\ RepeatedCleanRun /\ AllLinked
  /\ WrittenBy(1) # <<>>
  /\ result[1].skipped_estimated >= 1

\* C2: after runs that do not overlap and in which no store operation failed, no
\* two stored mentions of one target carry the same non-null url.
C2_UrlUniqueAfterSerialRuns == ("store" \notin failed) => UrlUnique

\* C3: a step of the inner loop on an entry whose title and summary are both
\* empty after trimming leaves the batch alone, calls no classifier and adds
\* exactly one to skipped, with or without a link.
C3_EmptyEntrySkipped ==
  [][\A w \in Workers :
       (EntryStep(w) /\ EmptyEntry(entries[w][ei[w]])) =>
          /\ rows'[w] = rows[w]
          /\ classified'[w] = classified[w]
          /\ skipped'[w] = skipped[w] + 1]_vars

C3_Witness ==
  /\ last.step = "entry" /\ last.kind = "skip_empty"
  /\ \E w \in Serving(last.req) :
        /\ EmptyEntry(entries[w][last.ei])
        /\ strip(OrEmpty(entries[w][last.ei].link)) # <<>>
        /\ skipped[w] >= 1

\* C4: a step of the inner loop whose exists-by-url query raised, on an entry with
\* text, appends that entry to the batch, leaves skipped alone, and leaves the run
\* going at the next entry, the next feed or the insert.
C4_QueryFailureGoesOn ==
  [][\A w \in Workers :
       (EntryStep(w) /\ last'.ext = "raise" /\ ~EmptyEntry(entries[w][ei[w]])) =>
          /\ Len(rows'[w]) = Len(rows[w]) + 1
          /\ rows'[w][Len(rows'[w])].url = strip(entries[w][ei[w]].link)
          /\ SubSeq(rows'[w], 1, Len(rows[w])) = rows[w]
          /\ skipped'[w] = skipped[w]
          /\ pc'[w] \in Running
          /\ IF ei[w] < Len(entries[w])
               THEN pc'[w] = "entry" /\ ei'[w] = ei[w] + 1 /\ fi'[w] = fi[w]
               ELSE IF fi[w] < Len(feeds)
                 THEN pc'[w] = "fetch" /\ fi'[w] = fi[w] + 1
                 ELSE pc'[w] = "insert"]_vars

C4_Witness ==
  /\ last.step = "entry" /\ last.ext = "raise"
  /\ \E w \in Serving(last.req) : pc[w] \in {"entry", "fetch"} /\ rows[w] # <<>>

\* C5: a feed whose fetch or parse failed does not end the run: after the failed
\* fetch the run stands at the next feed or at the insert, not in the error outcome.
C5_FeedFailureIsolated ==
  (last.step = "fetch" /\ last.ext # "ok") =>
     \A w \in Serving(last.req) : pc[w] # "error"

\* C6: a run whose batch insert failed is in the error outcome and has returned no
\* result; a run that returned inserted = k > 0 wrote exactly the k rows of its
\* batch, and a run in the error outcome wrote none.
C6_InsertFailureSurfaced ==
  /\ (last.step = "insert" /\ last.ext = "raise") =>
        \A w \in Serving(last.req) : pc[w] = "error" /\ result[w] = NoResult
  /\ \A w \in Workers :
        /\ (pc[w] = "done" /\ result[w].inserted > 0) =>
              /\ WrittenBy(req[w]) = rows[w]
              /\ Len(rows[w]) = result[w].inserted
        /\ pc[w] = "error" => (result[w] = NoResult /\ WrittenBy(req[w]) = <<>>)

C6_Witness ==
  /\ last.step = "insert" /\ last.ext = "raise"
  /\ started = 2 /\ WrittenBy(1) # <<>>
  /\ rows[1] # <<>>

\* C7: when two runs do not overlap, no state with two stored mentions carrying
\* the same url is reachable (when they overlap, it is).
C7_NoDuplicateWhenSerialised == (~overlap) => UrlUnique

\* the overlap half of C7: both runs passed the query before either inserted
C7_RaceDuplicate ==
  /\ overlap
  /\ \E i, j \in 1..Len(store) :
        i < j /\ store[i].url # None /\ store[i].url = store[j].url
              /\ store[i].req # store[j].req
  /\ \A n \in 1..2 : \A i, j \in 1..Len(WrittenBy(n)) :
        i < j => WrittenBy(n)[i].url # WrittenBy(n)[j].url

\* the rules that have a keyword contained in the lowercased text t
Matching(t) ==
  {i \in 1..Len(rules) : \E k \in 1..Len(rules[i].kws) : Contains(t, rules[i].kws[k])}

Lowered == lower(OrEmpty(text))

FirstMatchWins ==
  /\ \A i \in 1..Len(rules) : rules[i].topic = TOPICS[i]
  /\ topic # None =>
       LET m == Matching(Lowered)
       IN IF m = {} THEN topic = otros
          ELSE /\ \E i \in m : topic = TOPICS[i] /\ \A j \in m : i <= j
               /\ topic # otros

HasAguaAndImpuesto ==
  /\ Contains(Lowered, <<"a", "g", "u", "a">>)
  /\ Contains(Lowered, <<"i", "m", "p", "u", "e", "s", "t", "o">>)

\* C8 as stated: the topic is that of the earliest matching rule in the fixed order,
\* "otros" exactly when none matches, and any text containing both "agua" and
\* "impuesto" resolves to "agua".
C8_TopicFirstMatchWins ==
  /\ FirstMatchWins
  /\ (topic # None /\ HasAguaAndImpuesto) => topic = <<"a", "g", "u", "a">>

\* C8 amended: the topic is that of the earliest matching rule in the fixed order,
\* "otros" exactly when none matches, and a text containing both "agua" and
\* "impuesto" and no keyword of the four earlier rules resolves to "agua".
C8_TopicFirstMatchWinsAmongMatches ==
  /\ FirstMatchWins
  /\ (topic # None /\ HasAguaAndImpuesto /\ Matching(Lowered) \cap 1..4 = {})
        => topic = <<"a", "g", "u", "a">>

C8_Witness ==
  /\ topic = <<"a", "g", "u", "a">>
  /\ HasAguaAndImpuesto
  /\ Matching(Lowered) = {5, 6}

\* C9: in every row of /trending and in the summary of /search, pos + neu + neg
\* equals the number of mentions counted, whatever the sentiments of the rows.
C9_SentimentCountsAddUp ==
  /\ \A i \in 1..Len(trend) :
        trend[i].pos + trend[i].neu + trend[i].neg = trend[i].count
  /\ summary.pos + summary.neu + summary.neg = summary.total

C9_Witness ==
  /\ trend # <<>> /\ summary.total = Len(items) /\ Len(items) >= 2
  /\ \E i \in 1..Len(items) : items[i].sentiment = None
  /\ \E i \in 1..Len(items) : items[i].sentiment = <<"m", "i", "x", "e", "d">>

RECURSIVE SumMin(_)
SumMin(n) ==
  IF n = 0 THEN 0
  ELSE SumMin(n - 1) +
       (IF Len(feedContent[feeds[n]]) < limit_per_feed
          THEN Len(feedContent[feeds[n]]) ELSE limit_per_feed)

\* C10: a run that returns reports inserted + skipped equal to the number of
\* entries its feeds handed over, which is the sum over the feeds of
\* min(entries of the feed, limit_per_feed) when every fetch succeeded.
C10_EntryAccounting ==
  \A w \in Workers :
    pc[w] = "done" =>
      /\ result[w].inserted + result[w].skipped_estimated = considered[w]
      /\ ("feed" \notin failed) => considered[w] = SumMin(Len(feeds))

C10_Witness ==
  /\ pc[1] = "done" /\ "feed" \notin failed
  /\ result[1].inserted + result[1].skipped_estimated >= 2
  /\ \E i \in 1..Len(feeds) : Len(feedContent[feeds[i]]) > limit_per_feed
====
